---- MODULE Spec2Model ----
(***************************************************************************)
(* Model of Examples.ipynb: the helper solve_qubo (cell "1. Common         *)
(* functions") and the number-partitioning cells (section 2).              *)
(*                                                                         *)
(* Matrix entries are fixed-point numbers: an entry value v stands for the *)
(* real number v / Scale, so that non-integer matrices are representable   *)
(* and int(...) has something to truncate.                                 *)
(***************************************************************************)
EXTENDS Integers, Sequences, FiniteSets, TLC

\* ---------------------------------------------------------------- bounds
MaxDim == 2
MaxK == 3
Scale == 3
MaxN == 3
MaxS == 3

\* ---------------------------------------------------------------- inputs
EntryValues == {-1, 0}
Selectors == {"CPU", "QPU", "GPU"}
None == <<>>
Some(v) == <<v>>
ChainArgs == {None, Some(0), Some(7)}
Energies == {-1, 0}
SampleIds == {0, 1}

\* A numpy array of shape (rows, cols); a[<<i,j>>] is Q[i,j], 0-based.
MatricesOf(r, c) ==
    {[ndarray |-> TRUE, rows |-> r, cols |-> c, a |-> f] :
        f \in [(0..(r-1)) \X (0..(c-1)) -> EntryValues]}

Matrices == UNION {MatricesOf(r, c) : r \in 0..MaxDim, c \in 0..MaxDim}

\* A Q that is not a numpy array (a nested list [[0]]).
ListInput ==
    [ndarray |-> FALSE, rows |-> 1, cols |-> 1,
     a |-> [p \in (0..0) \X (0..0) |-> 0]]

QInputs == Matrices \cup {ListInput}

\* response.data(["sample", "energy"]): the rows of one solver invocation.
Entries == [sample : SampleIds, energy : Energies]
EnsemblesOf(len) == [1..len -> Entries]

VARIABLES pc, Q, sampler, k, chain_arg, chain_strength, n, nz, out, built,
          submissions, response, solution, returned, err,
          npc, S, npQ, x, sumS0, sumS1

solveVars == <<pc, Q, sampler, k, chain_arg, chain_strength, n, nz, out,
               built, submissions, response, solution, returned, err>>
npVars == <<npc, S, npQ, x, sumS0, sumS1>>
vars == <<pc, Q, sampler, k, chain_arg, chain_strength, n, nz, out, built,
          submissions, response, solution, returned, err,
          npc, S, npQ, x, sumS0, sumS1>>

\* ------------------------------------------------------- pure operators
Abs(v) == IF v < 0 THEN -v ELSE v

\* int(num / den): Python's int() truncates toward zero.
Trunc(num, den) == IF num >= 0 THEN num \div den ELSE -((-num) \div den)

SetMax(T) == CHOOSE m \in T : \A t \in T : t <= m

\* assert isinstance(Q, np.ndarray)
isArray(q) == q.ndarray

\* assert sampler in ["CPU", "QPU"]
validSampler_any(s) == TRUE
validSampler(s) == s \in {"CPU", "QPU"}

\* n = Q.shape[0]
shape0(q) == q.rows

\* nz = len(Q[Q != 0])
countNonZero(q) == Cardinality({p \in DOMAIN q.a : q.a[p] # 0})

\* np.max(np.abs(Q)) is undefined (raises ValueError) on a zero-size array.
isEmpty(q) == DOMAIN q.a = {}

\* int(10 * np.max(np.abs(Q)))
defaultChainStrength_noabs(q) ==
    Trunc(10 * SetMax({q.a[p] : p \in DOMAIN q.a}), Scale)
defaultChainStrength(q) ==
    Trunc(10 * SetMax({Abs(q.a[p]) : p \in DOMAIN q.a}), Scale)

\* min(iterable, key=lambda s: s.energy): one pass, keeping the first
\* element whose key is strictly below the best key seen so far.
RECURSIVE minScan_last(_, _, _)
minScan_last(seq, i, best) ==
    IF i > Len(seq) THEN best
    ELSE IF seq[i].energy <= seq[best].energy
         THEN minScan_last(seq, i + 1, i)
         ELSE minScan_last(seq, i + 1, best)
RECURSIVE minScan_max(_, _, _)
minScan_max(seq, i, best) ==
    IF i > Len(seq) THEN best
    ELSE IF seq[i].energy > seq[best].energy
         THEN minScan_max(seq, i + 1, i)
         ELSE minScan_max(seq, i + 1, best)
RECURSIVE minScan(_, _, _)
minScan(seq, i, best) ==
    IF i > Len(seq) THEN best
    ELSE IF seq[i].energy < seq[best].energy
         THEN minScan(seq, i + 1, i)
         ELSE minScan(seq, i + 1, best)

pyMin_last(seq) == seq[minScan_last(seq, 2, 1)]
pyMin_max(seq) == seq[minScan_max(seq, 2, 1)]
pyMin(seq) == seq[minScan(seq, 2, 1)]

\* sampler.sample_qubo(Q, num_reads=k)
cpuRequest_reads(q, kk) ==
    [backend |-> "CPU", Q |-> q, num_reads |-> kk + 1, chain_strength |-> None]
cpuRequest_chain(q, kk) ==
    [backend |-> "CPU", Q |-> q, num_reads |-> kk,
     chain_strength |-> chain_strength]
cpuRequest(q, kk) ==
    [backend |-> "CPU", Q |-> q, num_reads |-> kk, chain_strength |-> None]

\* sampler.sample_qubo(Q, num_reads=k, chain_strength=chain_strength)
qpuRequest(q, kk, cs) ==
    [backend |-> "QPU", Q |-> q, num_reads |-> kk, chain_strength |-> cs]

\* No try/except around the sampler calls: an exception ends the call.
onFailure_retry == "submit"
onFailure == "error"

\* ---------------------------------------------------------------- Init
Init ==
    /\ pc = "idle"
    /\ Q = ListInput
    /\ sampler = "CPU"
    /\ k = 1
    /\ chain_arg = None
    /\ chain_strength = None
    /\ n = 0
    /\ nz = 0
    /\ out = <<>>
    /\ built = {}
    /\ submissions = <<>>
    /\ response = <<>>
    /\ solution = None
    /\ returned = None
    /\ err = "none"
    /\ npc = "start"
    /\ S = <<>>
    /\ npQ = <<>>
    /\ x = <<>>
    /\ sumS0 = 0
    /\ sumS1 = 0

\* ------------------------------------------------------------ solve_qubo
\* def solve_qubo(Q, sampler="CPU", k=10, chain_strength=None)
Call ==
    /\ pc = "idle"
    /\ \E q \in QInputs, s \in Selectors, kk \in 1..MaxK, cs \in ChainArgs :
          /\ Q' = q
          /\ sampler' = s
          /\ k' = kk
          /\ chain_arg' = cs
          /\ chain_strength' = cs
    /\ pc' = "validate"
    /\ UNCHANGED <<n, nz, out, built, submissions, response, solution,
                   returned, err>>
    /\ UNCHANGED npVars

\* The two assert statements.
Validate ==
    /\ pc = "validate"
    /\ IF isArray(Q) /\ validSampler(sampler)
       THEN pc' = "report" /\ err' = err
       ELSE pc' = "error" /\ err' = "AssertionError"
    /\ UNCHANGED <<Q, sampler, k, chain_arg, chain_strength, n, nz, out, built,
                   submissions, response, solution, returned>>
    /\ UNCHANGED npVars

\* n, nz and the "Solving QUBO problem ..." line; start = time.time()
Report ==
    /\ pc = "report"
    /\ n' = shape0(Q)
    /\ nz' = countNonZero(Q)
    /\ out' = Append(out, <<"Solving", shape0(Q), countNonZero(Q), sampler>>)
    /\ pc' = "build"
    /\ UNCHANGED <<Q, sampler, k, chain_arg, chain_strength, built, submissions,
                   response, solution, returned, err>>
    /\ UNCHANGED npVars

\* if sampler == "CPU": sampler = dimod.SimulatedAnnealingSampler()
BuildCPU ==
    /\ pc = "build"
    /\ sampler = "CPU"
    /\ built' = built \cup {"SimulatedAnnealingSampler"}
    /\ pc' = "submit"
    /\ UNCHANGED <<Q, sampler, k, chain_arg, chain_strength, n, nz, out, submissions,
                   response, solution, returned, err>>
    /\ UNCHANGED npVars

\* else: default chain strength, then
\* sampler = AutoEmbeddingComposite(DWaveSampler(solver=dict(qpu=True)))
BuildQPU ==
    /\ pc = "build"
    /\ sampler # "CPU"
    /\ \/ /\ chain_strength = None
          /\ isEmpty(Q)
          /\ pc' = onFailure
          /\ err' = "ValueError"
          /\ UNCHANGED <<chain_strength, built>>
       \/ /\ ~(chain_strength = None /\ isEmpty(Q))
          /\ chain_strength' = IF chain_strength = None
                               THEN Some(defaultChainStrength(Q))
                               ELSE chain_strength
          /\ \/ /\ built' = built \cup {"DWaveSampler",
                                        "AutoEmbeddingComposite"}
                /\ pc' = "submit"
                /\ err' = err
             \/ /\ built' = built
                /\ pc' = onFailure
                /\ err' = "ServiceError"
    /\ UNCHANGED <<Q, sampler, k, chain_arg, n, nz, out, submissions, response,
                   solution, returned>>
    /\ UNCHANGED npVars

\* response = sampler.sample_qubo(Q, num_reads=k) on the local annealer,
\* which draws one sample per read, or raises.
SubmitCPU ==
    /\ pc = "submit"
    /\ sampler = "CPU"
    /\ submissions' = Append(submissions, cpuRequest(Q, k))
    /\ \/ /\ \E r \in EnsemblesOf(cpuRequest(Q, k).num_reads) : response' = r
          /\ pc' = "reduce"
          /\ err' = err
       \/ /\ response' = response
          /\ pc' = onFailure
          /\ err' = "SamplerError"
    /\ UNCHANGED <<Q, sampler, k, chain_arg, chain_strength, n, nz, out, built,
                   solution, returned>>
    /\ UNCHANGED npVars

\* response = sampler.sample_qubo(Q, num_reads=k, chain_strength=...) on the
\* hardware sampler; the service may merge equal samples, or raise.
SubmitQPU ==
    /\ pc = "submit"
    /\ sampler # "CPU"
    /\ submissions' = Append(submissions, qpuRequest(Q, k, chain_strength))
    /\ \/ /\ \E len \in 1..k : \E r \in EnsemblesOf(len) : response' = r
          /\ pc' = "reduce"
          /\ err' = err
       \/ /\ response' = response
          /\ pc' = onFailure
          /\ err' = "ServiceError"
    /\ UNCHANGED <<Q, sampler, k, chain_arg, chain_strength, n, nz, out, built,
                   solution, returned>>
    /\ UNCHANGED npVars

\* elapsed, the "Solved in ..." line, solution = min(...), return.
Reduce ==
    /\ pc = "reduce"
    /\ out' = Append(out, <<"Solved">>)
    /\ solution' = Some(pyMin(response))
    /\ returned' = <<pyMin(response), response>>
    /\ pc' = "done"
    /\ UNCHANGED <<Q, sampler, k, chain_arg, chain_strength, n, nz, built, submissions,
                   response, err>>
    /\ UNCHANGED npVars

\* ------------------------------------------- number partitioning cells
RECURSIVE SumFn(_, _)
SumFn(f, D) ==
    IF D = {} THEN 0
    ELSE LET d == CHOOSE e \in D : TRUE IN f[d] + SumFn(f, D \ {d})

\* sum(S)
sumList(s) == SumFn(s, DOMAIN s)

\* Q[i,i] = S[i] * (S[i] - c); Q[i,j] = 2 * S[i] * S[j] for j > i;
\* np.zeros elsewhere.
QEntry_half(s, c, i, j) ==
    IF i = j THEN s[i] * (s[i] - c)
    ELSE IF j > i THEN s[i] * s[j]
    ELSE 0
QEntry(s, c, i, j) ==
    IF i = j THEN s[i] * (s[i] - c)
    ELSE IF j > i THEN 2 * s[i] * s[j]
    ELSE 0

\* c, n = sum(S), len(S); Q = np.zeros((n, n), dtype=int); the two loops.
buildQ(s) ==
    [p \in (DOMAIN s) \X (DOMAIN s) |-> QEntry(s, sumList(s), p[1], p[2])]

\* [S[i] for (i, xi) in solution.sample.items() if xi > 0.5]
S0of(s, xs) == [i \in {j \in DOMAIN xs : 2 * xs[j] > 1} |-> s[i]]

\* [S[i] for (i, xi) in solution.sample.items() if xi <= 0.5]
S1of(s, xs) == [i \in {j \in DOMAIN xs : 2 * xs[j] <= 1} |-> s[i]]

Lists == UNION {[0..(len - 1) -> 1..MaxS] : len \in 1..MaxN}

\* np.random.seed(42); S = randint(low=1, high=11).rvs(30)
GenerateInstance ==
    /\ npc = "start"
    /\ \E s \in Lists : S' = s
    /\ npc' = "instance"
    /\ UNCHANGED <<npQ, x, sumS0, sumS1>>
    /\ UNCHANGED solveVars

\* Generate Q matrix
GenerateQ ==
    /\ npc = "instance"
    /\ npQ' = buildQ(S)
    /\ npc' = "matrix"
    /\ UNCHANGED <<S, x, sumS0, sumS1>>
    /\ UNCHANGED solveVars

\* solution, response = solve_qubo(Q): the sample of the returned solution
\* assigns a binary value to every variable 0..n-1.
SolveCPU ==
    /\ npc = "matrix"
    /\ \E xs \in [DOMAIN S -> {0, 1}] : x' = xs
    /\ npc' = "solvedCPU"
    /\ UNCHANGED <<S, npQ, sumS0, sumS1>>
    /\ UNCHANGED solveVars

\* solution, qresponse = solve_qubo(Q, sampler="QPU")
SolveQPU ==
    /\ npc = "shownCPU"
    /\ \E xs \in [DOMAIN S -> {0, 1}] : x' = xs
    /\ npc' = "solvedQPU"
    /\ UNCHANGED <<S, npQ, sumS0, sumS1>>
    /\ UNCHANGED solveVars

\* Display solution: S0, S1 and the two printed sums.
Display ==
    /\ npc \in {"solvedCPU", "solvedQPU"}
    /\ sumS0' = sumList(S0of(S, x))
    /\ sumS1' = sumList(S1of(S, x))
    /\ npc' = IF npc = "solvedCPU" THEN "shownCPU" ELSE "shownQPU"
    /\ UNCHANGED <<S, npQ, x>>
    /\ UNCHANGED solveVars

NextNP ==
    \/ GenerateInstance
    \/ GenerateQ
    \/ SolveCPU
    \/ SolveQPU
    \/ Display

SpecNP == Init /\ [][NextNP]_vars

Next ==
    \/ Call
    \/ Validate
    \/ Report
    \/ BuildCPU
    \/ BuildQPU
    \/ SubmitCPU
    \/ SubmitQPU
    \/ Reduce

Spec == Init /\ [][Next]_vars

\* ------------------------------------------------------------ properties
Range(seq) == {seq[i] : i \in DOMAIN seq}

MinEnergy(seq) ==
    CHOOSE e \in {seq[i].energy : i \in DOMAIN seq} :
        \A i \in DOMAIN seq : e <= seq[i].energy

FirstMinPos(seq) ==
    CHOOSE p \in DOMAIN seq :
        /\ seq[p].energy = MinEnergy(seq)
        /\ \A q \in 1..(p - 1) : seq[q].energy # MinEnergy(seq)

MaxAbs(q) ==
    CHOOSE m \in {Abs(q.a[p]) : p \in DOMAIN q.a} :
        \A p \in DOMAIN q.a : Abs(q.a[p]) <= m

\* Matrices of the same shape that agree with q on and above the diagonal.
LowerVariants(q) ==
    {q2 \in MatricesOf(q.rows, q.cols) :
        \A p \in DOMAIN q.a : p[1] <= p[2] => q2.a[p] = q.a[p]}

\* C1: when solve_qubo returns, the returned solution is an entry of the
\* returned ensemble and its energy is the minimum of the ensemble's
\* energies: no entry has a strictly lower energy.
C1_SolutionIsMinimum ==
    pc = "done" =>
        /\ returned # None
        /\ returned[2] = response
        /\ returned[1] \in Range(returned[2])
        /\ \A e \in Range(returned[2]) : returned[1].energy <= e.energy
        /\ returned[1].energy = MinEnergy(returned[2])

\* C1 witness: a call returned from an ensemble whose first entry is not a
\* minimum, so the reduction had to move past it.
C1_Witness ==
    /\ pc = "done"
    /\ Len(response) >= 2
    /\ response[1].energy > MinEnergy(response)
    /\ returned[1].energy < response[1].energy

\* C2: among entries sharing the minimum energy the returned solution is
\* the one at the smallest position of the ensemble.
C2_FirstMinimumWins ==
    pc = "done" =>
        /\ returned[1] = returned[2][FirstMinPos(returned[2])]
        /\ \A q \in 1..(FirstMinPos(returned[2]) - 1) :
              returned[2][q].energy > returned[1].energy

\* C2 witness: a returned ensemble with two different entries of minimum
\* energy, the first of them not at the head of the ensemble.
C2_Witness ==
    /\ pc = "done"
    /\ \E p, q \in DOMAIN response :
          /\ 1 < p
          /\ p < q
          /\ response[p].energy = MinEnergy(response)
          /\ response[q].energy = MinEnergy(response)
          /\ response[p].sample # response[q].sample
          /\ response[1].energy > MinEnergy(response)
          /\ returned[1] = response[p]

\* C3: a call whose selector is neither "CPU" nor "QPU" stops at the
\* assertion: no sampler is built, nothing is submitted, nothing is printed
\* and nothing is returned.
C3_BadSelectorFailsFirst ==
    (pc # "idle" /\ sampler \notin {"CPU", "QPU"}) =>
        /\ built = {}
        /\ submissions = <<>>
        /\ out = <<>>
        /\ response = <<>>
        /\ solution = None
        /\ returned = None
        /\ pc \in {"validate", "error"}
        /\ pc = "error" => err = "AssertionError"

\* C3 witness: a call with a numpy matrix and the selector "GPU" has failed
\* its assertion.
C3_Witness ==
    /\ pc = "error"
    /\ err = "AssertionError"
    /\ sampler = "GPU"
    /\ isArray(Q)

\* C4: a call with a non-square matrix ends in a validation error and
\* neither builds a sampler nor submits anything.
C4_NonSquareRejected ==
    (pc # "idle" /\ isArray(Q) /\ Q.rows # Q.cols) =>
        /\ built = {}
        /\ submissions = <<>>
        /\ pc \in {"done", "error"} => err = "AssertionError"

\* C5 as stated: the chain strength submitted to the hardware sampler is
\* exactly 10 * max|Q| when the caller gave none, else the caller's value.
C5_ExactDefault ==
    \A i \in DOMAIN submissions :
        submissions[i].backend = "QPU" =>
            IF chain_arg = None
            THEN /\ submissions[i].chain_strength # None
                 /\ submissions[i].chain_strength[1] * Scale = 10 * MaxAbs(Q)
            ELSE submissions[i].chain_strength = chain_arg

\* C5 amended: the chain strength submitted to the hardware sampler is the
\* integer part of 10 * max|Q| when the caller gave none, else the caller's
\* value unchanged.
C5_TruncatedDefault ==
    \A i \in DOMAIN submissions :
        submissions[i].backend = "QPU" =>
            IF chain_arg = None
            THEN /\ submissions[i].chain_strength # None
                 /\ submissions[i].chain_strength[1] * Scale <= 10 * MaxAbs(Q)
                 /\ 10 * MaxAbs(Q)
                       < (submissions[i].chain_strength[1] + 1) * Scale
            ELSE submissions[i].chain_strength = chain_arg

\* C5 witness: a hardware submission with no chain strength given, for a
\* matrix whose largest magnitude belongs to a negative entry.
C5_Witness ==
    /\ Len(submissions) = 1
    /\ submissions[1].backend = "QPU"
    /\ chain_arg = None
    /\ MaxAbs(Q) > 0
    /\ submissions[1].chain_strength = Some((10 * MaxAbs(Q)) \div Scale)

\* C6: on the local backend exactly k reads are requested and the returned
\* ensemble is the backend's response, of exactly k entries.
C6_LocalEnsembleSize ==
    (pc = "done" /\ sampler = "CPU") =>
        /\ Len(submissions) = 1
        /\ submissions[1].backend = "CPU"
        /\ submissions[1].Q = Q
        /\ submissions[1].num_reads = k
        /\ returned[2] = response
        /\ Len(returned[2]) = k

\* C6 witness: a local call with more than one read has returned.
C6_Witness ==
    /\ pc = "done"
    /\ sampler = "CPU"
    /\ k > 1
    /\ Len(returned[2]) = k

\* C7: the reported size and non-zero count and the default chain strength
\* are the same for every matrix that agrees with Q on and above the
\* diagonal.
C7_LowerTriangleIgnored ==
    (Len(out) >= 1 /\ Q.rows = Q.cols) =>
        \A q2 \in LowerVariants(Q) :
            /\ out[1] = <<"Solving", shape0(q2), countNonZero(q2), sampler>>
            /\ \A i \in DOMAIN submissions :
                  (submissions[i].backend = "QPU" /\ chain_arg = None) =>
                      submissions[i].chain_strength
                          = Some(defaultChainStrength(q2))

\* C8: a call submits at most once, to the selected backend, and a failed
\* call returns nothing and prints no "Solved" line.
C8_SingleAttempt ==
    /\ Len(submissions) <= 1
    /\ \A i \in DOMAIN submissions : submissions[i].backend = sampler
    /\ pc = "error" =>
          /\ returned = None
          /\ solution = None
          /\ response = <<>>
          /\ \A j \in DOMAIN out : out[j][1] # "Solved"

\* C8 witness: the single submission of a hardware call failed.
C8_Witness ==
    /\ pc = "error"
    /\ err = "ServiceError"
    /\ Len(submissions) = 1
    /\ submissions[1].backend = "QPU"

\* C10: the local selector builds only the local sampler and submits no
\* chain strength; the hardware selector builds only the hardware sampler
\* and every submission carries a chain strength.
C10_ExclusiveDispatch ==
    pc # "idle" =>
        /\ sampler = "CPU" =>
              /\ built \subseteq {"SimulatedAnnealingSampler"}
              /\ chain_strength = chain_arg
              /\ \A i \in DOMAIN submissions :
                    /\ submissions[i].backend = "CPU"
                    /\ submissions[i].chain_strength = None
        /\ sampler = "QPU" =>
              /\ built \subseteq {"DWaveSampler", "AutoEmbeddingComposite"}
              /\ \A i \in DOMAIN submissions :
                    /\ submissions[i].backend = "QPU"
                    /\ submissions[i].chain_strength # None
        /\ pc \in {"submit", "reduce", "done"} => built # {}

\* C10 witness: a local call given an explicit chain strength has returned.
C10_Witness ==
    /\ pc = "done"
    /\ sampler = "CPU"
    /\ chain_arg = Some(7)
    /\ Len(submissions) = 1
    /\ built = {"SimulatedAnnealingSampler"}

\* sum_{i<=j} x_i * Q[i,j] * x_j
objective(q, xs) ==
    LET U == {p \in DOMAIN q : p[1] <= p[2]}
    IN SumFn([p \in U |-> xs[p[1]] * q[p] * xs[p[2]]], U)

Assignments(s) == [DOMAIN s -> {0, 1}]

absDiff(s, xs) == Abs(sumList(S0of(s, xs)) - sumList(S1of(s, xs)))

isMinObjective(q, s, xs) ==
    \A y \in Assignments(s) : objective(q, xs) <= objective(q, y)

isMinDiff(s, xs) ==
    \A y \in Assignments(s) : absDiff(s, xs) <= absDiff(s, y)

====
